---- MODULE Spec2Model ----
(***************************************************************************)
(* LeadsManager: the sheet registry (App.tsx), the grid component          *)
(* (DataTable.tsx) and the lead scoring modal (LeadScoringModal), modelled *)
(* as one state machine.  Every action is one event handler together with  *)
(* the React effects that run after it, up to the next quiescent render.   *)
(*                                                                         *)
(* Indices are 1-based here; the source is 0-based.  Counts are the same.  *)
(***************************************************************************)
EXTENDS Integers, Sequences, FiniteSets, TLC

VARIABLES
    sheets,                  \* App: sheets
    activeSheetId,           \* App: activeSheetId
    isLoading,               \* App: isLoading
    appSelectedRows,         \* App: selectedRows (mirror of the table's selection)
    isLeadScoringModalOpen,  \* App: isLeadScoringModalOpen
    isImportModalOpen,       \* App: isImportModalOpen
    csvData,                 \* ImportModal: csvData
    csvLoading,              \* ImportModal: isLoading
    csvError,                \* ImportModal: error (is a message shown)
    selectedMode,            \* ImportModal: selectedMode
    parsing,                 \* Papa.parse: the result its callback will deliver
    storage,                 \* localStorage: the three keys the program uses
    columnWidths,            \* DataTable: columnWidths
    selectedRows,            \* DataTable: selectedRows
    sortConfig,              \* DataTable: sortConfig
    sortOwner,               \* history: id of the sheet sortConfig was set on
    weights,                 \* LeadScoringModal: weights
    subcategoryWeights,      \* LeadScoringModal: subcategoryWeights
    includedColumns,         \* LeadScoringModal: includedColumns
    includedRef,             \* identity of the includedColumns array object
    savedScores,             \* LeadScoringModal: savedScores
    nextScoreId,             \* stands for Date.now() at the next save
    op,                      \* history: the handler that ran last
    budget                   \* handlers the run may still invoke (-1: no limit)

vars == <<sheets, activeSheetId, isLoading, appSelectedRows, isLeadScoringModalOpen,
          storage, columnWidths, selectedRows, sortConfig, sortOwner, weights,
          subcategoryWeights, includedColumns, includedRef, savedScores,
          nextScoreId, isImportModalOpen, csvData, csvLoading, csvError,
          selectedMode, parsing, op, budget>>

appVars == <<sheets, activeSheetId, isLoading, isLeadScoringModalOpen>>
tableVars == <<columnWidths, selectedRows, appSelectedRows, sortConfig, sortOwner>>
scoringVars == <<weights, subcategoryWeights, includedColumns, includedRef,
                 savedScores, nextScoreId>>
importVars == <<isImportModalOpen, csvData, csvLoading, csvError, selectedMode, parsing>>

----------------------------------------------------------------------------
(* Bounds of the model. *)

MaxCols == 3
MaxRows == 2
MaxSheets == 2
MaxSheetId == 3
MaxSavedScores == 2
MaxIncluded == 20
MaxWeightSteps == 2
MaxGridSteps == 3
MaxSelectRows == 3
MaxSelectSteps == 5
MaxSortRows == 4
MaxThresholdRows == 10
MaxCellSteps == 3
MaxWidthSteps == 4
MaxPersistSteps == 4
MaxColumnSteps == 4

----------------------------------------------------------------------------
(* Sequence helpers: the array methods the source uses. *)

Range(s) == {s[i] : i \in DOMAIN s}

Min2(a, b) == IF a < b THEN a ELSE b
Max2(a, b) == IF a > b THEN a ELSE b

\* Array.prototype.splice(at, 0, x) with at given 1-based.
InsertAt(s, at, x) == SubSeq(s, 1, at - 1) \o <<x>> \o SubSeq(s, at, Len(s))

\* array.filter((_, index) => index !== at)
RemoveAt(s, at) == SubSeq(s, 1, at - 1) \o SubSeq(s, at + 1, Len(s))

\* array.filter(pred) over indices
RECURSIVE FilterIdx(_, _, _)
FilterIdx(s, keep, i) ==
    IF i > Len(s) THEN <<>>
    ELSE (IF i \in keep THEN <<s[i]>> ELSE <<>>) \o FilterIdx(s, keep, i + 1)

\* array.indexOf(x) / findIndex(h => h === x): first match, 0 when absent (-1 in the source)
IndexOf(s, x) ==
    IF \E i \in DOMAIN s : s[i] = x
    THEN CHOOSE i \in DOMAIN s : s[i] = x /\ \A j \in 1..(i - 1) : s[j] # x
    ELSE 0

\* new Array(n).fill(x)
Fill(n, x) == [i \in 1..n |-> x]

RECURSIVE SumSeq(_)
SumSeq(s) == IF s = <<>> THEN 0 ELSE Head(s) + SumSeq(Tail(s))

----------------------------------------------------------------------------
(* Values. *)

DEFAULT_WIDTH == 150
MIN_WIDTH == 100

NoData == [present |-> FALSE, headers |-> <<>>, rows |-> <<>>]
Table(h, r) == [present |-> TRUE, headers |-> h, rows |-> r]

NoSort == [present |-> FALSE, columnIndex |-> 0, direction |-> "asc"]

STORAGE_KEY == "leadsmanager_sheets"
LEGACY_KEY == "leadsmanager_data"
SCORES_KEY == "leadsmanager_saved_scores"

\* String.prototype.trim on the cell alphabet of the model.
Trim(v) == IF v = " " THEN "" ELSE IF v = " A " THEN "A" ELSE v

\* !val || !val.trim()
IsBlank(v) == v = "" \/ Trim(v) = ""

\* A handler ran: it is recorded in op and paid for from the budget.
Record(name, col) ==
    /\ budget # 0
    /\ budget' = IF budget > 0 THEN budget - 1 ELSE budget
    /\ op' = [name |-> name, col |-> col]

\* A handler that has nothing to do with the import modal ran.
Did(name, col) ==
    /\ Record(name, col)
    /\ UNCHANGED importVars

\* Papa.parse has nothing to deliver.
NoParse == [kind |-> "none", data |-> NoData]

\* The import modal as App first renders it: closed, nothing parsed.
ImportInit ==
    /\ isImportModalOpen = FALSE
    /\ csvData = NoData
    /\ csvLoading = FALSE
    /\ csvError = FALSE
    /\ selectedMode = "new"
    /\ parsing = NoParse

----------------------------------------------------------------------------
(* App.tsx: the registry and its effects. *)

\* sheets.find(sheet => sheet.id === activeSheetId), as an index (0: undefined)
currentSheet == IF \E i \in DOMAIN sheets : sheets[i].id = activeSheetId
                THEN CHOOSE i \in DOMAIN sheets :
                        sheets[i].id = activeSheetId
                        /\ \A j \in 1..(i - 1) : sheets[j].id # activeSheetId
                ELSE 0

\* currentSheet?.data
data == IF currentSheet = 0 THEN NoData ELSE sheets[currentSheet].data

DataOf(shs, active) ==
    IF \E i \in DOMAIN shs : shs[i].id = active
    THEN shs[CHOOSE i \in DOMAIN shs :
                shs[i].id = active /\ \A j \in 1..(i - 1) : shs[j].id # active].data
    ELSE NoData

\* setSheets(prev => prev.map(sheet => sheet.id === activeSheetId ? {...sheet, data} : sheet))
handleDataChange(d) ==
    [i \in DOMAIN sheets |->
        IF sheets[i].id = activeSheetId THEN [sheets[i] EXCEPT !.data = d] ELSE sheets[i]]

Absent == [kind |-> "absent", sheets |-> <<>>, activeSheetId |-> "", hasSheets |-> FALSE]

\* JSON.stringify({sheets, activeSheetId}) as stored, read back by JSON.parse
Registry(shs, active) ==
    [kind |-> "json", sheets |-> shs, activeSheetId |-> active, hasSheets |-> TRUE]

\* Mutant of SaveEffect: the effect runs on a change of sheets only.
SaveEffect_OnSheetsOnly(st, shs, active) ==
    IF Len(shs) > 0 /\ shs # sheets THEN [st EXCEPT !.sheets = Registry(shs, active)] ELSE st

\* The save effect: if (sheets.length > 0) localStorage.setItem(STORAGE_KEY, ...)
SaveEffect(st, shs, active) ==
    IF Len(shs) > 0 THEN [st EXCEPT !.sheets = Registry(shs, active)] ELSE st

----------------------------------------------------------------------------
(* DataTable.tsx: component state and the two reset effects. *)

\* Mutant of ClearSelection: the effect on [data] is missing.
ClearSelection_OnLengthOnly(sel, changed, lenChanged) ==
    IF lenChanged THEN {} ELSE sel

\* setSelectedRows(new Set()) in the effects on [data.headers.length] and on [data]
ClearSelection(sel, changed, lenChanged) ==
    IF changed \/ lenChanged THEN {} ELSE sel

\* One render of App after a handler: the DataTable is mounted iff the current
\* sheet has data; w, sel, sc are the values the handler left in the component
\* state; changed says whether the data prop is a new object.
Render(shs, active, w, sel, sc, owner, changed, name, col) ==
    LET old == data
        new == DataOf(shs, active)
    IN  /\ sheets' = shs
        /\ activeSheetId' = active
        /\ storage' = SaveEffect(storage, shs, active)
        /\ Record(name, col)
        /\ IF ~new.present
           THEN \* DataTable not rendered: its state is gone, App keeps its mirror
                /\ columnWidths' = <<>>
                /\ selectedRows' = {}
                /\ sortConfig' = NoSort
                /\ sortOwner' = ""
                /\ UNCHANGED appSelectedRows
           ELSE IF ~old.present
           THEN \* first render of a new DataTable: useState initial values
                /\ columnWidths' = Fill(Len(new.headers), DEFAULT_WIDTH)
                /\ selectedRows' = {}
                /\ appSelectedRows' = {}
                /\ sortConfig' = NoSort
                /\ sortOwner' = ""
           ELSE LET lenChanged == Len(new.headers) # Len(old.headers)
                    sel2 == ClearSelection(sel, changed, lenChanged)
                IN  \* useEffect(..., [data.headers.length]) and useEffect(..., [data])
                    /\ columnWidths' = IF lenChanged
                                       THEN Fill(Len(new.headers), DEFAULT_WIDTH)
                                       ELSE w
                    /\ selectedRows' = sel2
                    /\ appSelectedRows' = sel2
                    /\ sortConfig' = sc
                    /\ sortOwner' = owner

\* A DataTable handler that calls onDataChange(d) after setColumnWidths(w).
TableChange(d, w, name, col) ==
    /\ Render(handleDataChange(d), activeSheetId, w, selectedRows, sortConfig,
              sortOwner, TRUE, name, col)
    /\ UNCHANGED <<isLoading, isLeadScoringModalOpen>>
    /\ UNCHANGED importVars
    /\ UNCHANGED scoringVars

\* The table is on screen and no modal covers it.
TableShown ==
    ~isLoading /\ data.present /\ ~isLeadScoringModalOpen /\ ~isImportModalOpen

NCols == Len(data.headers)
NRows == Len(data.rows)

\* Values a user types into a cell or a header in the model.
CellInputs == {"", "X"}
HeaderInputs == {"A", " A ", "", " "}

\* `Column ${data.headers.length + 1}`
newColumnName == "Column " \o ToString(NCols + 1)

\* arrayMove(array, from, to) of @dnd-kit/sortable
arrayMove(s, from, to) == InsertAt(RemoveAt(s, from), to, s[from])

\* newRows[rowIndex][colIndex] = value: an index past the end of the row
\* lengthens the array; the cells in between are holes, which every reader of
\* a cell takes as ''.
SetAt(row, colIndex, value) ==
    IF colIndex <= Len(row) THEN [row EXCEPT ![colIndex] = value]
    ELSE row \o Fill(colIndex - Len(row) - 1, "") \o <<value>>

handleCellChange(rowIndex, colIndex, value) ==
    /\ TableShown
    /\ IF rowIndex \notin DOMAIN data.rows
       THEN \* [...newRows[rowIndex]] throws a TypeError: nothing is set
            /\ Did("handleCellChange", colIndex)
            /\ UNCHANGED <<appVars, storage, tableVars, scoringVars>>
       ELSE TableChange(Table(data.headers,
                              [data.rows EXCEPT ![rowIndex] =
                                  SetAt(data.rows[rowIndex], colIndex, value)]),
                        columnWidths, "handleCellChange", colIndex)

\* Mutant of handleHeaderSave: no fallback to the previous header.
handleHeaderSave_NoFallback(colIndex, tempHeader) == Trim(tempHeader)

\* SortableColumn.handleHeaderSave: onHeaderChange(tempHeader.trim() || header)
handleHeaderSave(colIndex, tempHeader) ==
    IF Trim(tempHeader) # "" THEN Trim(tempHeader) ELSE data.headers[colIndex]

handleHeaderChange(colIndex, tempHeader) ==
    /\ TableShown
    /\ TableChange(Table([data.headers EXCEPT ![colIndex] =
                             handleHeaderSave(colIndex, tempHeader)],
                         data.rows),
                   columnWidths, "handleHeaderChange", colIndex)

addColumn ==
    /\ TableShown
    /\ NCols < MaxCols
    /\ TableChange(Table(Append(data.headers, newColumnName),
                         [r \in DOMAIN data.rows |-> Append(data.rows[r], "")]),
                   Append(columnWidths, DEFAULT_WIDTH), "addColumn", 0)

\* Mutant of newRow: the row is built one cell short.
newRow_Short == Fill(NCols - 1, "")

\* const newRow = new Array(data.headers.length).fill('')
newRow == Fill(NCols, "")

addRow ==
    /\ TableShown
    /\ NRows < MaxRows
    /\ TableChange(Table(data.headers, Append(data.rows, newRow)),
                   columnWidths, "addRow", 0)

insertColumnLeft(columnIndex) ==
    /\ TableShown
    /\ NCols < MaxCols
    /\ TableChange(Table(InsertAt(data.headers, columnIndex, newColumnName),
                         [r \in DOMAIN data.rows |->
                             InsertAt(data.rows[r], columnIndex, "")]),
                   InsertAt(columnWidths, columnIndex, DEFAULT_WIDTH),
                   "insertColumnLeft", columnIndex)

\* Mutant of insertColumnRight: it splices at columnIndex instead of columnIndex + 1.
insertColumnRight_AtIndex(columnIndex) ==
    /\ TableShown
    /\ NCols < MaxCols
    /\ TableChange(Table(InsertAt(data.headers, columnIndex, newColumnName),
                         [r \in DOMAIN data.rows |->
                             InsertAt(data.rows[r], columnIndex, "")]),
                   InsertAt(columnWidths, columnIndex, DEFAULT_WIDTH),
                   "insertColumnRight", columnIndex)

insertColumnRight(columnIndex) ==
    /\ TableShown
    /\ NCols < MaxCols
    /\ TableChange(Table(InsertAt(data.headers, columnIndex + 1, newColumnName),
                         [r \in DOMAIN data.rows |->
                             InsertAt(data.rows[r], columnIndex + 1, "")]),
                   InsertAt(columnWidths, columnIndex + 1, DEFAULT_WIDTH),
                   "insertColumnRight", columnIndex)

\* Mutant of deleteColumn: the last column can be deleted.
deleteColumn_NoRefusal(columnIndex) ==
    /\ TableShown
    /\ TableChange(Table(RemoveAt(data.headers, columnIndex),
                         [r \in DOMAIN data.rows |->
                             RemoveAt(data.rows[r], columnIndex)]),
                   RemoveAt(columnWidths, columnIndex),
                   "deleteColumn", columnIndex)

deleteColumn(columnIndex) ==
    /\ TableShown
    /\ IF NCols <= 1
       THEN \* return: nothing is set
            /\ Did("deleteColumn", columnIndex)
            /\ UNCHANGED <<appVars, storage, tableVars, scoringVars>>
       ELSE TableChange(Table(RemoveAt(data.headers, columnIndex),
                              [r \in DOMAIN data.rows |->
                                  RemoveAt(data.rows[r], columnIndex)]),
                        RemoveAt(columnWidths, columnIndex),
                        "deleteColumn", columnIndex)

\* The table handleDragEnd hands to onDataChange; active and over are the ids
\* of the dragged column and of the column it is dropped on, and the id of a
\* column is its header text.
DragEnd(d, active, over) ==
    IF active = over THEN d
    ELSE LET oldIndex == IndexOf(d.headers, active)
             newIndex == IndexOf(d.headers, over)
         IN  Table(arrayMove(d.headers, oldIndex, newIndex),
                   [r \in DOMAIN d.rows |-> arrayMove(d.rows[r], oldIndex, newIndex)])

\* Dragging the column at index from onto the column at index to.
moveColumn(d, from, to) == DragEnd(d, d.headers[from], d.headers[to])

\* Mutant of handleDragEnd: the widths are not moved.
handleDragEnd_WidthsStay(active, over) ==
    /\ TableShown
    /\ active # over
    /\ TableChange(DragEnd(data, active, over), columnWidths,
                   "handleDragEnd", IndexOf(data.headers, active))

handleDragEnd(active, over) ==
    /\ TableShown
    /\ active # over
    /\ LET oldIndex == IndexOf(data.headers, active)
           newIndex == IndexOf(data.headers, over)
       IN  TableChange(DragEnd(data, active, over),
                       arrayMove(columnWidths, oldIndex, newIndex),
                       "handleDragEnd", oldIndex)

\* handleMouseDown / handleMouseMove: x is startWidth + diff
\* Mutant of handleMouseMove: the requested width is taken as it is.
handleMouseMove_NoClamp(columnIndex, x) ==
    /\ TableShown
    /\ columnWidths' = [columnWidths EXCEPT ![columnIndex] = x]
    /\ Did("handleMouseMove", columnIndex)
    /\ UNCHANGED <<appVars, storage, selectedRows, appSelectedRows, sortConfig,
                   sortOwner, scoringVars>>

handleMouseMove(columnIndex, x) ==
    /\ TableShown
    /\ columnWidths' = [columnWidths EXCEPT ![columnIndex] = Max2(MIN_WIDTH, x)]
    /\ Did("handleMouseMove", columnIndex)
    /\ UNCHANGED <<appVars, storage, selectedRows, appSelectedRows, sortConfig,
                   sortOwner, scoringVars>>

toggleRowSelection(rowIndex) ==
    /\ TableShown
    /\ selectedRows' = IF rowIndex \in selectedRows
                       THEN selectedRows \ {rowIndex}
                       ELSE selectedRows \cup {rowIndex}
    /\ appSelectedRows' = selectedRows'
    /\ Did("toggleRowSelection", 0)
    /\ UNCHANGED <<appVars, storage, columnWidths, sortConfig, sortOwner, scoringVars>>

\* Mutant of selectAllRows: it never clears.
selectAllRows_AlwaysAll ==
    /\ TableShown
    /\ selectedRows' = 1..NRows
    /\ appSelectedRows' = selectedRows'
    /\ Did("selectAllRows", 0)
    /\ UNCHANGED <<appVars, storage, columnWidths, sortConfig, sortOwner, scoringVars>>

selectAllRows ==
    /\ TableShown
    /\ selectedRows' = IF Cardinality(selectedRows) = NRows THEN {} ELSE 1..NRows
    /\ appSelectedRows' = selectedRows'
    /\ Did("selectAllRows", 0)
    /\ UNCHANGED <<appVars, storage, columnWidths, sortConfig, sortOwner, scoringVars>>

\* Mutant of handleDeleteSelectedRows: the filter keeps the selected rows.
handleDeleteSelectedRows_KeepsSelected ==
    /\ TableShown
    /\ Cardinality(appSelectedRows) > 0
    /\ TableChange(Table(data.headers, FilterIdx(data.rows, appSelectedRows, 1)),
                   columnWidths, "handleDeleteSelectedRows", 0)

\* App.handleDeleteSelectedRows (the "Delete Selected" button)
handleDeleteSelectedRows ==
    /\ TableShown
    /\ Cardinality(appSelectedRows) > 0
    /\ TableChange(Table(data.headers,
                         FilterIdx(data.rows, DOMAIN data.rows \ appSelectedRows, 1)),
                   columnWidths, "handleDeleteSelectedRows", 0)

----------------------------------------------------------------------------
(* Strings as the sort and the score see them.  TLA+ strings are atoms, so  *)
(* every string a cell can hold is listed with its lower-cased UTF-16 code *)
(* units and with what parseFloat and Number make of it (in hundredths).   *)

NaN == [nan |-> TRUE, val |-> 0]
Num(h) == [nan |-> FALSE, val |-> h]

\* The digits of n, most significant first, as code units.
RECURSIVE Digits(_)
Digits(n) == IF n < 10 THEN <<48 + n>> ELSE Digits(n \div 10) \o <<48 + (n % 10)>>

\* Number.prototype.toString for a value of h hundredths, h >= 0.
ScoreString(h) ==
    LET int == h \div 100
        frac == h % 100
    IN  IF frac = 0 THEN ToString(int)
        ELSE IF frac % 10 = 0 THEN ToString(int) \o "." \o ToString(frac \div 10)
        ELSE IF frac < 10 THEN ToString(int) \o ".0" \o ToString(frac)
        ELSE ToString(int) \o "." \o ToString(frac)

ScoreCodes(h) ==
    LET int == h \div 100
        frac == h % 100
    IN  IF frac = 0 THEN Digits(int)
        ELSE IF frac % 10 = 0 THEN Digits(int) \o <<46>> \o Digits(frac \div 10)
        ELSE IF frac < 10 THEN Digits(int) \o <<46, 48>> \o Digits(frac)
        ELSE Digits(int) \o <<46>> \o Digits(frac)

\* Every score the engine can write: column weights are integers that sum to
\* 100 and value points are multiples of 25.
ScoreRange == {25 * k : k \in 0..400}

Info(codes, float, number) == [lower |-> codes, float |-> float, number |-> number]

RawStrings ==
    ("" :> Info(<<>>, NaN, Num(0))) @@
    (" " :> Info(<<32>>, NaN, Num(0))) @@
    ("X" :> Info(<<120>>, NaN, NaN)) @@
    ("Y" :> Info(<<121>>, NaN, NaN)) @@
    ("abc" :> Info(<<97, 98, 99>>, NaN, NaN)) @@
    ("1" :> Info(<<49>>, Num(100), Num(100))) @@
    ("2" :> Info(<<50>>, Num(200), Num(200))) @@
    ("10" :> Info(<<49, 48>>, Num(1000), Num(1000))) @@
    ("8abc" :> Info(<<56, 97, 98, 99>>, Num(800), NaN))

ScoreStrings ==
    [s \in {ScoreString(h) : h \in ScoreRange} |->
        LET h == CHOOSE x \in ScoreRange : ScoreString(x) = s
        IN  Info(ScoreCodes(h), Num(h), Num(h))]

StringInfo(v) == IF v \in DOMAIN RawStrings THEN RawStrings[v] ELSE ScoreStrings[v]

parseFloat(v) == StringInfo(v).float
Number(v) == StringInfo(v).number
toLowerCase(v) == StringInfo(v).lower

\* a < b on strings: lexicographic on code units
RECURSIVE StrLess(_, _)
StrLess(a, b) ==
    IF b = <<>> THEN FALSE
    ELSE IF a = <<>> THEN TRUE
    ELSE IF Head(a) # Head(b) THEN Head(a) < Head(b)
    ELSE StrLess(Tail(a), Tail(b))

\* x || 0 on a parsed number
OrZero(x) == IF x.nan THEN 0 ELSE x.val

isNumericColumn(columnIndex) ==
    LET values == {r \in DOMAIN data.rows : ~IsBlank(data.rows[r][columnIndex])}
        numericValues == {r \in values :
                            /\ ~Number(data.rows[r][columnIndex]).nan
                            /\ ~parseFloat(data.rows[r][columnIndex]).nan}
    IN  IF Cardinality(values) = 0 THEN FALSE
        ELSE 10 * Cardinality(numericValues) > 7 * Cardinality(values)

\* The comparator of sortColumn: negative, zero or positive.
Compare(a, b, columnIndex, direction, isNumeric) ==
    IF isNumeric
    THEN LET aNum == OrZero(parseFloat(a[columnIndex]))
             bNum == OrZero(parseFloat(b[columnIndex]))
         IN  IF direction = "asc" THEN aNum - bNum ELSE bNum - aNum
    ELSE LET aStr == toLowerCase(a[columnIndex])
             bStr == toLowerCase(b[columnIndex])
         IN  IF direction = "asc"
             THEN (IF StrLess(aStr, bStr) THEN -1 ELSE IF StrLess(bStr, aStr) THEN 1 ELSE 0)
             ELSE (IF StrLess(bStr, aStr) THEN -1 ELSE IF StrLess(aStr, bStr) THEN 1 ELSE 0)

\* Array.prototype.sort is stable: x goes behind every element not greater than it.
RECURSIVE InsertSorted(_, _, _, _, _)
InsertSorted(s, x, c, d, n) ==
    IF s = <<>> THEN <<x>>
    ELSE IF Compare(s[Len(s)], x, c, d, n) <= 0 THEN Append(s, x)
    ELSE Append(InsertSorted(SubSeq(s, 1, Len(s) - 1), x, c, d, n), s[Len(s)])

RECURSIVE SortRows(_, _, _, _)
SortRows(rows, c, d, n) ==
    IF rows = <<>> THEN <<>>
    ELSE InsertSorted(SortRows(SubSeq(rows, 1, Len(rows) - 1), c, d, n),
                      rows[Len(rows)], c, d, n)

sortColumn(columnIndex, direction) ==
    /\ TableShown
    /\ Render(handleDataChange(Table(data.headers,
                  SortRows(data.rows, columnIndex, direction,
                           isNumericColumn(columnIndex)))),
              activeSheetId, columnWidths, selectedRows,
              [present |-> TRUE, columnIndex |-> columnIndex, direction |-> direction],
              activeSheetId, TRUE, "sortColumn", columnIndex)
    /\ UNCHANGED <<isLoading, isLeadScoringModalOpen>>
    /\ UNCHANGED importVars
    /\ UNCHANGED scoringVars

----------------------------------------------------------------------------
(* LeadScoringModal: the scoring configuration and the scoring engine. *)

IMPORTANCE_LEVELS ==
    ("Very Important" :> 100) @@ ("Important" :> 75) @@ ("Normal" :> 50) @@
    ("A Little Important" :> 25) @@ ("Not Important" :> 0)

\* The importance levels and the weight texts a user picks in the model.
ImportanceInputs == {"Very Important", "Normal", "Not Important"}
WeightInputs == {"", "40", "60"}
ScoreNameInputs == {"", "S"}

\* parseInt on the weight texts of the model
parseInt(value) ==
    IF value = "40" THEN Num(40)
    ELSE IF value = "60" THEN Num(60)
    ELSE NaN

EmptyMap == <<>>

\* { ...m, [k]: v }
Put(m, k, v) == [x \in DOMAIN m \cup {k} |-> IF x = k THEN v ELSE m[x]]

\* delete m[k]
Delete(m, k) == [x \in DOMAIN m \ {k} |-> m[x]]

\* Mutant of Redistribute: the remainder is dropped.
Redistribute_NoRemainder(included) ==
    [h \in Range(included) |-> 100 \div Len(included)]

\* The effect on includedColumns: equal weights, the remainder to the first.
Redistribute(included) ==
    LET equalWeight == 100 \div Len(included)
        remainder == 100 - (equalWeight * Len(included))
    IN  [h \in Range(included) |->
            equalWeight + (IF IndexOf(included, h) = 1 THEN remainder ELSE 0)]

\* The state of weights after a render in which includedColumns became
\* `included`: w is what the handler set, fired whether the array is a new object.
WeightsEffect(included, w, fired) ==
    IF fired /\ Len(included) > 0 THEN Redistribute(included) ELSE w

RECURSIVE SumMap(_)
SumMap(m) ==
    IF DOMAIN m = {} THEN 0
    ELSE LET k == CHOOSE x \in DOMAIN m : TRUE IN m[k] + SumMap(Delete(m, k))

\* Object.values(weights).reduce((sum, weight) => sum + weight, 0)
totalWeight == SumMap(weights)

\* Mutant of isValidWeight: the total is not looked at.
isValidWeight_AnyTotal == Len(includedColumns) > 0

isValidWeight == totalWeight = 100 /\ Len(includedColumns) > 0

\* data.headers.filter(header => !includedColumns.includes(header))
availableColumns == {h \in Range(data.headers) : h \notin Range(includedColumns)}

\* The non-blank values of a column: the options of the value selector.
getUniqueValuesForColumn(columnName) ==
    LET columnIndex == IndexOf(data.headers, columnName)
    IN  IF columnIndex = 0 THEN {}
        ELSE {data.rows[r][columnIndex] : r \in
                {r \in DOMAIN data.rows : ~IsBlank(data.rows[r][columnIndex])}}

\* weights[columnName] || 0
ColumnWeightOf(w, columnName) == IF columnName \in DOMAIN w THEN w[columnName] ELSE 0

\* subcategoryWeights[columnName]?.[cellValue] || 50
SubcategoryWeightOf(sw, columnName, cellValue) ==
    IF columnName \in DOMAIN sw /\ cellValue \in DOMAIN sw[columnName]
       /\ sw[columnName][cellValue] # 0
    THEN sw[columnName][cellValue]
    ELSE 50

\* Math.round(totalScore * 100) / 100, totalScore given in 1/10000, result in 1/100
Round2(t) == (t + 50) \div 100

\* One summand of calculateRowScore, in 1/10000.
ScoreTerm(headers, row, w, sw, columnName) ==
    LET columnIndex == IndexOf(headers, columnName)
    IN  IF columnIndex = 0 THEN 0
        ELSE IF IsBlank(row[columnIndex]) THEN 0
        ELSE ColumnWeightOf(w, columnName)
             * SubcategoryWeightOf(sw, columnName, row[columnIndex]) * 100

\* calculateRowScore(row), in hundredths
calculateRowScore(headers, row, included, w, sw) ==
    Round2(SumSeq([i \in DOMAIN included |-> ScoreTerm(headers, row, w, sw, included[i])]))

ScoringShown == ~isLoading /\ isLeadScoringModalOpen

ScoringStep(name) ==
    /\ Did(name, 0)
    /\ UNCHANGED <<appVars, tableVars>>

\* App.handleConfigureLeadScoring and the effect on [isOpen, data.headers]
handleConfigureLeadScoring ==
    /\ TableShown
    /\ Cardinality(appSelectedRows) = 0
    /\ isLeadScoringModalOpen' = TRUE
    /\ IF Len(data.headers) > 0
       THEN /\ weights' = EmptyMap
            /\ includedColumns' = <<>>
            /\ includedRef' = 0
            /\ savedScores' = IF storage.scores.kind = "json"
                              THEN storage.scores.scores
                              ELSE savedScores
       ELSE UNCHANGED <<weights, includedColumns, includedRef, savedScores>>
    /\ Did("handleConfigureLeadScoring", 0)
    /\ UNCHANGED <<sheets, activeSheetId, isLoading, storage, tableVars,
                   subcategoryWeights, nextScoreId>>

LeadScoring_addColumn(header) ==
    /\ ScoringShown
    /\ header \in availableColumns
    /\ includedColumns' = Append(includedColumns, header)
    /\ includedRef' = 0
    /\ weights' = WeightsEffect(includedColumns', weights, TRUE)
    /\ ScoringStep("LeadScoring_addColumn")
    /\ UNCHANGED <<storage, subcategoryWeights, savedScores, nextScoreId>>

LeadScoring_removeColumn(header) ==
    /\ ScoringShown
    /\ header \in Range(includedColumns)
    /\ includedColumns' = SelectSeq(includedColumns, LAMBDA col : col # header)
    /\ includedRef' = 0
    /\ weights' = WeightsEffect(includedColumns', Delete(weights, header), TRUE)
    /\ ScoringStep("LeadScoring_removeColumn")
    /\ UNCHANGED <<storage, subcategoryWeights, savedScores, nextScoreId>>

handleWeightChange(header, value) ==
    /\ ScoringShown
    /\ header \in Range(includedColumns)
    /\ weights' = Put(weights, header, Max2(0, Min2(100, OrZero(parseInt(value)))))
    /\ ScoringStep("handleWeightChange")
    /\ UNCHANGED <<storage, subcategoryWeights, includedColumns, includedRef,
                   savedScores, nextScoreId>>

handleAssignImportance(columnName, selectedValue, selectedImportance) ==
    /\ ScoringShown
    /\ columnName \in Range(includedColumns)
    /\ selectedValue \in getUniqueValuesForColumn(columnName)
    /\ subcategoryWeights' =
         Put(subcategoryWeights, columnName,
             Put(IF columnName \in DOMAIN subcategoryWeights
                 THEN subcategoryWeights[columnName] ELSE EmptyMap,
                 selectedValue, IMPORTANCE_LEVELS[selectedImportance]))
    /\ ScoringStep("handleAssignImportance")
    /\ UNCHANGED <<storage, weights, includedColumns, includedRef, savedScores,
                   nextScoreId>>

\* The Continue button: onSave(weights) only logs, onClose() closes the modal.
handleSave ==
    /\ ScoringShown
    /\ isLeadScoringModalOpen' = ~isValidWeight
    /\ Did("handleSave", 0)
    /\ UNCHANGED <<sheets, activeSheetId, isLoading, storage, tableVars, scoringVars>>

handleSaveScore(scoreName) ==
    /\ ScoringShown
    /\ nextScoreId <= MaxSavedScores
    /\ IF Trim(scoreName) = "" \/ ~isValidWeight
       THEN UNCHANGED <<savedScores, storage, nextScoreId>>
       ELSE LET newScore == [id |-> nextScoreId,
                             name |-> Trim(scoreName),
                             weights |-> weights,
                             subcategoryWeights |-> subcategoryWeights,
                             includedColumns |-> includedColumns]
                updatedScores == Append(savedScores, newScore)
            IN  /\ savedScores' = updatedScores
                /\ storage' = [storage EXCEPT
                                 !.scores = [kind |-> "json", scores |-> updatedScores]]
                /\ nextScoreId' = nextScoreId + 1
    /\ ScoringStep("handleSaveScore")
    /\ UNCHANGED <<weights, subcategoryWeights, includedColumns, includedRef>>

\* setIncludedColumns(score.includedColumns) hands over the array object of the
\* saved score: the effect on includedColumns runs only if it is another object.
handleLoadScore(i) ==
    /\ ScoringShown
    /\ i \in DOMAIN savedScores
    /\ LET score == savedScores[i]
       IN  /\ subcategoryWeights' = score.subcategoryWeights
           /\ includedColumns' = score.includedColumns
           /\ includedRef' = score.id
           /\ weights' = WeightsEffect(score.includedColumns, score.weights,
                                       includedRef # score.id)
    /\ ScoringStep("handleLoadScore")
    /\ UNCHANGED <<storage, savedScores, nextScoreId>>

handleDeleteScore(i) ==
    /\ ScoringShown
    /\ i \in DOMAIN savedScores
    /\ LET updatedScores == RemoveAt(savedScores, i)
       IN  /\ savedScores' = updatedScores
           /\ storage' = [storage EXCEPT
                            !.scores = [kind |-> "json", scores |-> updatedScores]]
    /\ ScoringStep("handleDeleteScore")
    /\ UNCHANGED <<weights, subcategoryWeights, includedColumns, includedRef,
                   nextScoreId>>

scoreColumnName == "Lead Score"

\* Mutant of ApplyScore: the score column is always appended.
ApplyScore_AlwaysAppend(d, included, w, sw) ==
    Table(Append(d.headers, scoreColumnName),
          [r \in DOMAIN d.rows |->
              Append(d.rows[r],
                     ScoreString(calculateRowScore(d.headers, d.rows[r], included, w, sw)))])

\* The table handleApplyScoreToData hands to onDataChange.
ApplyScore(d, included, w, sw) ==
    LET found == IndexOf(d.headers, scoreColumnName)
        newHeaders == IF found = 0 THEN Append(d.headers, scoreColumnName) ELSE d.headers
        scoreColumnIndex == IF found = 0 THEN Len(newHeaders) ELSE found
        pad(row) == row \o Fill(Max2(0, Len(newHeaders) - Len(row)), "")
    IN  Table(newHeaders,
              [r \in DOMAIN d.rows |->
                  [pad(d.rows[r]) EXCEPT ![scoreColumnIndex] =
                      ScoreString(calculateRowScore(d.headers, d.rows[r], included, w, sw))]])

handleApplyScoreToData ==
    /\ ScoringShown
    /\ scoreColumnName \in Range(data.headers) \/ NCols < MaxCols
    /\ IF ~isValidWeight
       THEN /\ Did("handleApplyScoreToData", 0)
            /\ UNCHANGED <<appVars, storage, tableVars>>
       ELSE /\ Render(handleDataChange(ApplyScore(data, includedColumns, weights,
                                                  subcategoryWeights)),
                      activeSheetId, columnWidths, selectedRows, sortConfig, sortOwner,
                      TRUE, "handleApplyScoreToData", 0)
            /\ isLeadScoringModalOpen' = FALSE
            /\ UNCHANGED isLoading
            /\ UNCHANGED importVars
    /\ UNCHANGED scoringVars

\* The close and Cancel buttons of the scoring modal.
onClose ==
    /\ ScoringShown
    /\ isLeadScoringModalOpen' = FALSE
    /\ Did("onClose", 0)
    /\ UNCHANGED <<sheets, activeSheetId, isLoading, storage, tableVars, scoringVars>>

----------------------------------------------------------------------------
(* App.tsx: start-up and the sheet handlers. *)

Garbage == [kind |-> "garbage", sheets |-> <<>>, activeSheetId |-> "", hasSheets |-> FALSE]

\* The legacy key: a table snapshot, or JSON of another shape, or no JSON at all.
LegacyAbsent == [kind |-> "absent", data |-> NoData]
LegacyGarbage == [kind |-> "garbage", data |-> NoData]
LegacyOther == [kind |-> "json", data |-> NoData]
Legacy(d) == [kind |-> "json", data |-> d]

ScoresAbsent == [kind |-> "absent", scores |-> <<>>]

Sheet(id, name, d) == [id |-> id, name |-> name, data |-> d]

\* The three effects of App on the first renders, in source order, until
\* nothing changes any more.
LoadedSheets ==
    LET saved == storage.sheets
        old == storage.legacy
    IN  IF saved.kind = "json" /\ saved.hasSheets /\ saved.activeSheetId # ""
        THEN [sheets |-> saved.sheets, active |-> saved.activeSheetId, storage |-> storage]
        ELSE IF saved.kind = "json" /\ old.kind = "json" /\ old.data.present
        THEN [sheets |-> <<Sheet("1", "Sheet 1", old.data)>>, active |-> "1",
              storage |-> [storage EXCEPT !.legacy = LegacyAbsent]]
        ELSE IF saved.kind = "garbage" \/ (saved.kind = "json" /\ old.kind = "garbage")
        THEN \* JSON.parse threw: catch removes STORAGE_KEY
             [sheets |-> <<>>, active |-> "", storage |-> [storage EXCEPT !.sheets = Absent]]
        ELSE [sheets |-> <<>>, active |-> "", storage |-> storage]

\* if (!isLoading && sheets.length === 0): the default sheet
WithDefaultSheet(l) ==
    IF Len(l.sheets) = 0
    THEN [l EXCEPT !.sheets = <<Sheet("1", "Sheet 1", NoData)>>, !.active = "1"]
    ELSE l

Mount ==
    /\ isLoading
    /\ LET l == WithDefaultSheet(LoadedSheets)
           d == DataOf(l.sheets, l.active)
       IN  /\ sheets' = l.sheets
           /\ activeSheetId' = l.active
           /\ storage' = SaveEffect(l.storage, l.sheets, l.active)
           /\ columnWidths' = IF d.present THEN Fill(Len(d.headers), DEFAULT_WIDTH) ELSE <<>>
    /\ isLoading' = FALSE
    /\ Did("Mount", 0)
    /\ UNCHANGED <<isLeadScoringModalOpen, selectedRows, appSelectedRows, sortConfig,
                   sortOwner, scoringVars>>

\* parseInt(s.id) for the ids of the model
RECURSIVE SheetIdValue(_, _)
SheetIdValue(id, n) ==
    IF n > MaxSheetId + 1 THEN NaN
    ELSE IF ToString(n) = id THEN Num(n)
    ELSE SheetIdValue(id, n + 1)

\* Mutant of newId: the next id is the number of sheets plus one.
newId_Count == Len(sheets) + 1

\* existingIds.length > 0 ? Math.max(...existingIds) + 1 : 1
newId ==
    LET existingIds == {SheetIdValue(sheets[i].id, 0).val : i \in
                          {i \in DOMAIN sheets : ~SheetIdValue(sheets[i].id, 0).nan}}
    IN  IF existingIds # {}
        THEN (CHOOSE m \in existingIds : \A x \in existingIds : x <= m) + 1
        ELSE 1

\* The footer with the sheet tabs can be used.
TabsShown == ~isLoading /\ ~isLeadScoringModalOpen /\ ~isImportModalOpen

SheetChange(shs, active, changed, name) ==
    /\ Render(shs, active, columnWidths, selectedRows, sortConfig, sortOwner, changed,
              name, 0)
    /\ UNCHANGED <<isLoading, isLeadScoringModalOpen>>
    /\ UNCHANGED importVars
    /\ UNCHANGED scoringVars

addNewSheet ==
    /\ TabsShown
    /\ Len(sheets) < MaxSheets
    /\ newId <= MaxSheetId
    /\ SheetChange(Append(sheets, Sheet(ToString(newId), "Sheet " \o ToString(newId), NoData)),
                   ToString(newId), TRUE, "addNewSheet")

SheetNameInputs == {"N"}

\* SheetTab.handleSave: onRename(tempName.trim() || sheet.name)
renameSheet(id, name) ==
    /\ TabsShown
    /\ SheetChange([i \in DOMAIN sheets |->
                       IF sheets[i].id = id
                       THEN [sheets[i] EXCEPT !.name = IF Trim(name) # "" THEN Trim(name)
                                                       ELSE sheets[i].name]
                       ELSE sheets[i]],
                   activeSheetId, FALSE, "renameSheet")

\* The sheets and the active id deleteSheet leaves behind, past its guard:
\* setActiveSheetId(remainingSheets[0].id) throws when nothing remains, and the
\* default-sheet effect then fills the empty registry.
RemainingSheets(id) ==
    LET remainingSheets == SelectSeq(sheets, LAMBDA sheet : sheet.id # id)
    IN  WithDefaultSheet(
            [sheets |-> remainingSheets,
             active |-> IF id = activeSheetId /\ remainingSheets # <<>>
                        THEN remainingSheets[1].id
                        ELSE activeSheetId,
             storage |-> storage])

\* The filter ran: op.col records how many sheets it dropped (0 for a refusal).
FilterSheets(id) ==
    /\ Render(RemainingSheets(id).sheets, RemainingSheets(id).active, columnWidths,
              selectedRows, sortConfig, sortOwner, id = activeSheetId, "deleteSheet",
              Cardinality({i \in DOMAIN sheets : sheets[i].id = id}))
    /\ UNCHANGED <<isLoading, isLeadScoringModalOpen>>
    /\ UNCHANGED importVars
    /\ UNCHANGED scoringVars

\* Mutant of deleteSheet: the last sheet can be deleted.
deleteSheet_NoRefusal(id) ==
    /\ TabsShown
    /\ FilterSheets(id)

deleteSheet(id) ==
    /\ TabsShown
    /\ IF Len(sheets) <= 1
       THEN /\ Did("deleteSheet", 0)
            /\ UNCHANGED <<appVars, storage, tableVars, scoringVars>>
       ELSE FilterSheets(id)

\* SheetTab onClick: setActiveSheetId(sheet.id)
setActiveSheetId(id) ==
    /\ TabsShown
    /\ id # activeSheetId
    /\ SheetChange(sheets, id, TRUE, "setActiveSheetId")

\* CSVUploader onDataLoad={handleDataChange}: shown while the current sheet has no data
onDataLoad(d) ==
    /\ ~isLoading
    /\ ~data.present
    /\ SheetChange(handleDataChange(d), activeSheetId, TRUE, "onDataLoad")

\* The Actions menu (Import, Configure Lead Scoring): rendered in place of the
\* Delete Selected button while App's selectedRows is empty.
ActionsShown == TableShown /\ Cardinality(appSelectedRows) = 0

\* Mutant of handleImportData: every import creates a sheet.
handleImportData_AlwaysNew(d, mode) ==
    /\ ActionsShown
    /\ Len(sheets) < MaxSheets
    /\ newId <= MaxSheetId
    /\ SheetChange(Append(sheets, Sheet(ToString(newId), "Sheet " \o ToString(newId), d)),
                   ToString(newId), TRUE, "handleImportData")

\* ImportModal.handleImport: onImport(csvData, selectedMode), then App.handleImportData
handleImportData(d, mode) ==
    /\ ActionsShown
    /\ IF mode = "new"
       THEN /\ Len(sheets) < MaxSheets
            /\ newId <= MaxSheetId
            /\ SheetChange(Append(sheets, Sheet(ToString(newId),
                                                "Sheet " \o ToString(newId), d)),
                           ToString(newId), TRUE, "handleImportData")
       ELSE SheetChange(handleDataChange(d), activeSheetId, TRUE, "handleImportData")

----------------------------------------------------------------------------
(* ImportModal.tsx: the modal stays mounted while it is closed, so its state *)
(* outlives handleClose; Papa.parse delivers its result in a later task.     *)

\* App.handleImport: the Import entry of the Actions menu
handleImport ==
    /\ ActionsShown
    /\ isImportModalOpen' = TRUE
    /\ Record("handleImport", 0)
    /\ UNCHANGED <<csvData, csvLoading, csvError, selectedMode, parsing>>
    /\ UNCHANGED <<appVars, storage, tableVars, scoringVars>>

\* What Papa.parse can deliver for a file: a table, or a failure (no rows, no
\* headers, a read error), which is shown as a message.
ParseFailed == [kind |-> "error", data |-> NoData]
Parsed(d) == [kind |-> "ok", data |-> d]

\* The file input is rendered while csvData is null and enabled while
\* isLoading is false; result is what the parse of the chosen file will give.
handleFileUpload(result) ==
    /\ ~isLoading
    /\ isImportModalOpen
    /\ ~csvData.present
    /\ ~csvLoading
    /\ csvLoading' = TRUE
    /\ csvError' = FALSE
    /\ parsing' = result
    /\ Record("handleFileUpload", 0)
    /\ UNCHANGED <<isImportModalOpen, csvData, selectedMode>>
    /\ UNCHANGED <<appVars, storage, tableVars, scoringVars>>

\* The complete / error callback handed to Papa.parse; it runs whether or not
\* the modal is still open.
complete ==
    /\ parsing # NoParse
    /\ IF parsing.kind = "ok"
       THEN csvData' = parsing.data /\ UNCHANGED csvError
       ELSE csvError' = TRUE /\ UNCHANGED csvData
    /\ csvLoading' = FALSE
    /\ parsing' = NoParse
    /\ Record("complete", 0)
    /\ UNCHANGED <<isImportModalOpen, selectedMode>>
    /\ UNCHANGED <<appVars, storage, tableVars, scoringVars>>

\* ImportModal.handleClose: the X button and Cancel
handleClose ==
    /\ ~isLoading
    /\ isImportModalOpen
    /\ csvData' = NoData
    /\ csvError' = FALSE
    /\ selectedMode' = "new"
    /\ isImportModalOpen' = FALSE
    /\ Record("handleClose", 0)
    /\ UNCHANGED <<csvLoading, parsing>>
    /\ UNCHANGED <<appVars, storage, tableVars, scoringVars>>

\* The radio buttons, rendered once a CSV is loaded and hasExistingData holds
setSelectedMode(mode) ==
    /\ ~isLoading
    /\ isImportModalOpen
    /\ csvData.present
    /\ data.present
    /\ selectedMode' = mode
    /\ Record("setSelectedMode", 0)
    /\ UNCHANGED <<isImportModalOpen, csvData, csvLoading, csvError, parsing>>
    /\ UNCHANGED <<appVars, storage, tableVars, scoringVars>>

\* ImportModal.handleImport: if (csvData) { onImport(csvData, selectedMode); handleClose() }
ImportModal_handleImport ==
    /\ ~isLoading
    /\ isImportModalOpen
    /\ csvData.present
    /\ IF selectedMode = "new"
       THEN /\ Len(sheets) < MaxSheets
            /\ newId <= MaxSheetId
            /\ Render(Append(sheets, Sheet(ToString(newId), "Sheet " \o ToString(newId),
                                           csvData)),
                      ToString(newId), columnWidths, selectedRows, sortConfig, sortOwner,
                      TRUE, "ImportModal_handleImport", 0)
       ELSE Render(handleDataChange(csvData), activeSheetId, columnWidths, selectedRows,
                   sortConfig, sortOwner, TRUE, "ImportModal_handleImport", 0)
    /\ csvData' = NoData
    /\ csvError' = FALSE
    /\ selectedMode' = "new"
    /\ isImportModalOpen' = FALSE
    /\ UNCHANGED <<csvLoading, parsing>>
    /\ UNCHANGED <<isLoading, isLeadScoringModalOpen>>
    /\ UNCHANGED scoringVars

----------------------------------------------------------------------------
(* Specifications. *)

\* The component state of a scoring modal that was never opened.
ScoringInit ==
    /\ weights = EmptyMap
    /\ subcategoryWeights = EmptyMap
    /\ includedColumns = <<>>
    /\ includedRef = 0
    /\ savedScores = <<>>
    /\ nextScoreId = 1

\* The state right after a CSV file was loaded into the only sheet.
Loaded(d, b) ==
    /\ sheets = <<Sheet("1", "Sheet 1", d)>>
    /\ activeSheetId = "1"
    /\ isLoading = FALSE
    /\ appSelectedRows = {}
    /\ isLeadScoringModalOpen = FALSE
    /\ storage = [sheets |-> Registry(sheets, activeSheetId),
                  legacy |-> LegacyAbsent,
                  scores |-> ScoresAbsent]
    /\ columnWidths = Fill(Len(d.headers), DEFAULT_WIDTH)
    /\ selectedRows = {}
    /\ sortConfig = NoSort
    /\ sortOwner = ""
    /\ ImportInit
    /\ op = [name |-> "onDataLoad", col |-> 0]
    /\ budget = b
    /\ ScoringInit

\* The tables the grid specification starts from.
GridTables ==
    { Table(<<"A", "B">>, << <<"X", "Y">>, <<"", "X">> >>),
      Table(<<"A", "Lead Score">>, << <<"X", "">> >>),
      Table(<<"A">>, <<>>) }

\* Widths a drag of the resize handle asks for (startWidth + diff).
WidthInputs == {40, 200}

InitGrid == \E d \in GridTables : Loaded(d, MaxGridSteps)

GridOps ==
    \/ \E r \in 1..NRows, c \in 1..NCols, v \in CellInputs : handleCellChange(r, c, v)
    \/ \E c \in 1..NCols, v \in HeaderInputs : handleHeaderChange(c, v)
    \/ addColumn
    \/ addRow
    \/ \E c \in 1..NCols : insertColumnLeft(c)
    \/ \E c \in 1..NCols : insertColumnRight(c)
    \/ \E c \in 1..NCols : deleteColumn(c)
    \/ \E a \in Range(data.headers), o \in Range(data.headers) : handleDragEnd(a, o)
    \/ \E c \in 1..NCols, x \in WidthInputs : handleMouseMove(c, x)
    \/ \E r \in 1..NRows : toggleRowSelection(r)
    \/ selectAllRows
    \/ handleDeleteSelectedRows
    \/ \E c \in 1..NCols, d \in {"asc", "desc"} : sortColumn(c, d)

\* Every run of at most MaxGridSteps handlers on a freshly loaded table.
NextGrid ==
    \/ GridOps
    \/ handleConfigureLeadScoring
    \/ \E h \in Range(data.headers) : LeadScoring_addColumn(h)
    \/ handleApplyScoreToData
    \/ onClose

SpecGrid == InitGrid /\ [][NextGrid]_vars

\* The scoring modal, just opened over a loaded table.
Opened(d) ==
    /\ sheets = <<Sheet("1", "Sheet 1", d)>>
    /\ activeSheetId = "1"
    /\ isLoading = FALSE
    /\ appSelectedRows = {}
    /\ isLeadScoringModalOpen = TRUE
    /\ storage = [sheets |-> Registry(sheets, activeSheetId),
                  legacy |-> LegacyAbsent,
                  scores |-> ScoresAbsent]
    /\ columnWidths = Fill(Len(d.headers), DEFAULT_WIDTH)
    /\ selectedRows = {}
    /\ sortConfig = NoSort
    /\ sortOwner = ""
    /\ ImportInit
    /\ op = [name |-> "handleConfigureLeadScoring", col |-> 0]
    /\ budget = -1
    /\ ScoringInit

ScoreTables ==
    { Table(<<"A", "B">>, << <<"X", "Y">>, <<"X", "">> >>),
      Table(<<"A", "Lead Score">>, << <<"X", "">>, <<" ", "X">> >>) }

InitScore == \E d \in ScoreTables : Opened(d)

ScoringOps ==
    \/ \E h \in Range(data.headers) : LeadScoring_addColumn(h)
    \/ \E h \in Range(data.headers) : LeadScoring_removeColumn(h)
    \/ \E h \in Range(data.headers), v \in WeightInputs : handleWeightChange(h, v)
    \/ \E h \in Range(data.headers), v \in DOMAIN RawStrings, l \in ImportanceInputs :
            handleAssignImportance(h, v, l)
    \/ handleSave
    \/ handleApplyScoreToData
    \/ onClose

NextScore == ScoringOps

SpecScore == InitScore /\ [][NextScore]_vars

\* The scoring modal opened in a session that finds earlier saved scores.
StoredScores ==
    { <<>>,
      << [id |-> 1, name |-> "S",
          weights |-> ("A" :> 60) @@ ("B" :> 40),
          subcategoryWeights |-> ("A" :> ("X" :> 100)),
          includedColumns |-> <<"A", "B">>] >> }

InitSaved ==
    \E sc \in StoredScores :
        /\ sheets = <<Sheet("1", "Sheet 1", Table(<<"A", "B">>, << <<"X", "Y">> >>))>>
        /\ activeSheetId = "1"
        /\ isLoading = FALSE
        /\ appSelectedRows = {}
        /\ isLeadScoringModalOpen = TRUE
        /\ storage = [sheets |-> Registry(sheets, activeSheetId),
                      legacy |-> LegacyAbsent,
                      scores |-> IF sc = <<>> THEN ScoresAbsent
                                 ELSE [kind |-> "json", scores |-> sc]]
        /\ columnWidths = Fill(2, DEFAULT_WIDTH)
        /\ selectedRows = {}
        /\ sortConfig = NoSort
        /\ sortOwner = ""
        /\ ImportInit
        /\ op = [name |-> "handleConfigureLeadScoring", col |-> 0]
        /\ budget = -1
        /\ weights = EmptyMap
        /\ subcategoryWeights = EmptyMap
        /\ includedColumns = <<>>
        /\ includedRef = 0
        /\ savedScores = sc
        /\ nextScoreId = Len(sc) + 1

SavedOps ==
    \/ \E h \in Range(data.headers) : LeadScoring_addColumn(h)
    \/ \E h \in Range(data.headers) : LeadScoring_removeColumn(h)
    \/ \E h \in Range(data.headers), v \in WeightInputs : handleWeightChange(h, v)
    \/ handleSave
    \/ \E n \in ScoreNameInputs : handleSaveScore(n)
    \/ \E i \in 1..MaxSavedScores : handleLoadScore(i)
    \/ \E i \in 1..MaxSavedScores : handleDeleteScore(i)
    \/ handleApplyScoreToData
    \/ onClose

NextSaved == SavedOps

SpecSaved == InitSaved /\ [][NextSaved]_vars

\* A table of MaxIncluded columns and the scoring modal with the first n included.
WeightHeaders == [i \in 1..MaxIncluded |-> "H" \o ToString(i)]

InitWeights ==
    \E n \in 0..MaxIncluded :
        /\ sheets = <<Sheet("1", "Sheet 1", Table(WeightHeaders, <<>>))>>
        /\ activeSheetId = "1"
        /\ isLoading = FALSE
        /\ appSelectedRows = {}
        /\ isLeadScoringModalOpen = TRUE
        /\ storage = [sheets |-> Registry(sheets, activeSheetId),
                      legacy |-> LegacyAbsent,
                      scores |-> ScoresAbsent]
        /\ columnWidths = Fill(MaxIncluded, DEFAULT_WIDTH)
        /\ selectedRows = {}
        /\ sortConfig = NoSort
        /\ sortOwner = ""
        /\ ImportInit
        /\ op = [name |-> IF n = 0 THEN "handleConfigureLeadScoring"
                          ELSE "LeadScoring_addColumn", col |-> 0]
        /\ budget = MaxWeightSteps
        /\ includedColumns = SubSeq(WeightHeaders, 1, n)
        /\ weights = WeightsEffect(includedColumns, EmptyMap, TRUE)
        /\ subcategoryWeights = EmptyMap
        /\ includedRef = 0
        /\ savedScores = <<>>
        /\ nextScoreId = 1

NextWeights ==
    \/ \E h \in Range(data.headers) : LeadScoring_addColumn(h)
    \/ \E h \in Range(data.headers) : LeadScoring_removeColumn(h)

SpecWeights == InitWeights /\ [][NextWeights]_vars

\* What localStorage can hold when the page is opened.
AppTables ==
    { Table(<<"A">>, << <<"X">>, <<"Y">> >>),
      Table(<<"A", "B">>, << <<"Y", "X">>, <<"X", "Y">> >>) }

StoredRegistries ==
    { Absent, Garbage,
      [kind |-> "json", sheets |-> <<>>, activeSheetId |-> "", hasSheets |-> FALSE],
      Registry(<<Sheet("1", "Sheet 1", Table(<<"A">>, << <<"X">>, <<"Y">> >>)),
                 Sheet("2", "Sheet 2", NoData)>>, "1"),
      Registry(<<Sheet("1", "Sheet 1", NoData)>>, "7"),
      Registry(<<Sheet("x", "Sheet x", NoData)>>, "x"),
      Registry(<<>>, "1") }

StoredLegacies ==
    { LegacyAbsent, LegacyGarbage, LegacyOther,
      Legacy(Table(<<"A", "B">>, << <<"Y", "X">>, <<"X", "Y">> >>)) }

InitApp ==
    /\ sheets = <<>>
    /\ activeSheetId = ""
    /\ isLoading = TRUE
    /\ appSelectedRows = {}
    /\ isLeadScoringModalOpen = FALSE
    /\ storage \in [sheets : StoredRegistries, legacy : StoredLegacies,
                    scores : {ScoresAbsent}]
    /\ columnWidths = <<>>
    /\ selectedRows = {}
    /\ sortConfig = NoSort
    /\ sortOwner = ""
    /\ ImportInit
    /\ op = [name |-> "", col |-> 0]
    /\ budget = -1
    /\ ScoringInit

AppOps ==
    \/ Mount
    \/ addNewSheet
    \/ \E i \in DOMAIN sheets, n \in SheetNameInputs : renameSheet(sheets[i].id, n)
    \/ \E i \in DOMAIN sheets : deleteSheet(sheets[i].id)
    \/ \E i \in DOMAIN sheets : setActiveSheetId(sheets[i].id)
    \/ \E d \in AppTables : onDataLoad(d)
    \/ \E d \in AppTables, m \in {"new", "replace"} : handleImportData(d, m)
    \/ \E r \in 1..NRows : toggleRowSelection(r)
    \/ \E c \in 1..NCols, d \in {"asc", "desc"} : sortColumn(c, d)

NextApp == AppOps

SpecApp == InitApp /\ [][NextApp]_vars

\* Row selection: tables whose rows can be told apart, on one or two sheets.
SelectRow(i) == <<ToString(i)>>

SelectTables ==
    { Table(<<"A">>, [i \in 1..n |-> SelectRow(i)]) : n \in {0, MaxSelectRows} }

InitSelect == \E d \in SelectTables : Loaded(d, MaxSelectSteps)

\* Every run of at most MaxSelectSteps of these handlers.
SelectOps ==
    \/ \E r \in 1..NRows : toggleRowSelection(r)
    \/ selectAllRows
    \/ handleDeleteSelectedRows
    \/ addColumn
    \/ \E c \in 1..NCols : deleteColumn(c)
    \/ addNewSheet
    \/ \E i \in DOMAIN sheets : setActiveSheetId(sheets[i].id)
    \/ \E d \in SelectTables : onDataLoad(d)
    \/ \E d \in SelectTables, m \in {"new", "replace"} : handleImportData(d, m)

NextSelect == SelectOps

SpecSelect == InitSelect /\ [][NextSelect]_vars

\* Sorting: a column of values next to a column that numbers the rows.
SortValues == {"", "abc", "X", "1", "2", "10", "8abc"}

SortColumns ==
    UNION {[1..n -> SortValues] : n \in 0..MaxSortRows}
    \cup [1..MaxThresholdRows -> {"1", "abc"}]

SortTable(col) == Table(<<"V", "T">>, [i \in DOMAIN col |-> <<col[i], ToString(i)>>])

InitSort == \E col \in SortColumns : Loaded(SortTable(col), -1)

SortOps == \E d \in {"asc", "desc"} : sortColumn(1, d)

NextSort == SortOps

SpecSort == InitSort /\ [][NextSort]_vars

\* Cell edits: handleCellChange with any row and column index up to one past
\* the table.
CellTables ==
    { Table(<<"A", "B">>, << <<"X", "Y">>, <<"", "X">> >>),
      Table(<<"A">>, << <<"Y">> >>) }

InitCell == \E d \in CellTables : Loaded(d, MaxCellSteps)

CellOps ==
    \E r \in 1..(NRows + 1), c \in 1..(NCols + 1), v \in CellInputs :
        handleCellChange(r, c, v)

NextCell == CellOps

SpecCell == InitCell /\ [][NextCell]_vars

\* Column widths: resizes, column operations, apply-score and sheet switches
\* on tables of one and of two columns.
WidthTables ==
    { Table(<<"A", "B">>, << <<"X", "Y">> >>),
      Table(<<"A">>, << <<"X">> >>) }

InitWidths == \E d \in WidthTables : Loaded(d, MaxWidthSteps)

\* Every run of at most MaxWidthSteps of these handlers.
WidthOps ==
    \/ \E c \in 1..NCols, x \in WidthInputs : handleMouseMove(c, x)
    \/ addColumn
    \/ \E c \in 1..NCols : insertColumnLeft(c)
    \/ \E c \in 1..NCols : insertColumnRight(c)
    \/ \E c \in 1..NCols : deleteColumn(c)
    \/ \E a \in Range(data.headers), o \in Range(data.headers) : handleDragEnd(a, o)
    \/ addNewSheet
    \/ \E i \in DOMAIN sheets : setActiveSheetId(sheets[i].id)
    \/ \E d \in WidthTables : onDataLoad(d)
    \/ \E d \in WidthTables, m \in {"new", "replace"} : handleImportData(d, m)

NextWidths ==
    \/ WidthOps
    \/ handleConfigureLeadScoring
    \/ \E h \in Range(data.headers) : LeadScoring_addColumn(h)
    \/ handleApplyScoreToData
    \/ onClose

SpecWidths == InitWidths /\ [][NextWidths]_vars

\* The page is reloaded: every component starts again from its useState
\* initial values, localStorage is what it was.
Reload ==
    /\ ~isLoading
    /\ sheets' = <<>>
    /\ activeSheetId' = ""
    /\ isLoading' = TRUE
    /\ isLeadScoringModalOpen' = FALSE
    /\ appSelectedRows' = {}
    /\ columnWidths' = <<>>
    /\ selectedRows' = {}
    /\ sortConfig' = NoSort
    /\ sortOwner' = ""
    /\ weights' = EmptyMap
    /\ subcategoryWeights' = EmptyMap
    /\ includedColumns' = <<>>
    /\ includedRef' = 0
    /\ savedScores' = <<>>
    /\ isImportModalOpen' = FALSE
    /\ csvData' = NoData
    /\ csvLoading' = FALSE
    /\ csvError' = FALSE
    /\ selectedMode' = "new"
    /\ parsing' = NoParse
    /\ Record("Reload", 0)
    /\ UNCHANGED <<storage, nextScoreId>>

\* Persistence: registry and table mutations, with a reload at any point.
PersistTables == { Table(<<"A">>, << <<"X">>, <<"">> >>) }

InitPersist == \E d \in PersistTables : Loaded(d, MaxPersistSteps)

\* Every run of at most MaxPersistSteps of these handlers.
PersistOps ==
    \/ \E r \in 1..NRows, c \in 1..NCols, v \in CellInputs : handleCellChange(r, c, v)
    \/ \E c \in 1..NCols, v \in HeaderInputs : handleHeaderChange(c, v)
    \/ addColumn
    \/ \E c \in 1..NCols : deleteColumn(c)
    \/ addRow
    \/ \E r \in 1..NRows : toggleRowSelection(r)
    \/ handleDeleteSelectedRows
    \/ \E c \in 1..NCols, d \in {"asc", "desc"} : sortColumn(c, d)
    \/ handleConfigureLeadScoring
    \/ \E h \in Range(data.headers) : LeadScoring_addColumn(h)
    \/ handleApplyScoreToData
    \/ addNewSheet
    \/ \E i \in DOMAIN sheets, n \in SheetNameInputs : renameSheet(sheets[i].id, n)
    \/ \E i \in DOMAIN sheets : deleteSheet(sheets[i].id)
    \/ \E i \in DOMAIN sheets : setActiveSheetId(sheets[i].id)
    \/ \E d \in PersistTables : onDataLoad(d)
    \/ \E d \in PersistTables, m \in {"new", "replace"} : handleImportData(d, m)

NextPersist ==
    \/ PersistOps
    \/ Reload
    \/ Mount

SpecPersist == InitPersist /\ [][NextPersist]_vars

\* The import modal over a loaded table: opening, choosing a file, the parse
\* callback, closing, choosing the mode and importing, in any order the
\* guards allow.
InitImport == \E d \in AppTables : Loaded(d, -1)

ImportOps ==
    \/ handleImport
    \/ \E d \in AppTables : handleFileUpload(Parsed(d))
    \/ handleFileUpload(ParseFailed)
    \/ handleClose
    \/ \E m \in {"new", "replace"} : setSelectedMode(m)
    \/ ImportModal_handleImport

NextImport ==
    \/ ImportOps
    \/ complete

SpecImport == InitImport /\ [][NextImport]_vars

\* Column names: tables with distinct headers, none of them 'Column k', and
\* nothing but adding, inserting and deleting columns.
ColumnTables ==
    { Table(<<"A", "B">>, << <<"X", "Y">> >>),
      Table(<<"A">>, <<>>) }

InitColumns == \E d \in ColumnTables : Loaded(d, MaxColumnSteps)

\* Every run of at most MaxColumnSteps of these handlers.
ColumnOps ==
    \/ addColumn
    \/ \E c \in 1..NCols : insertColumnLeft(c)
    \/ \E c \in 1..NCols : insertColumnRight(c)
    \/ \E c \in 1..NCols : deleteColumn(c)

NextColumns == ColumnOps

SpecColumns == InitColumns /\ [][NextColumns]_vars

----------------------------------------------------------------------------
(* Properties. *)

\* C1: in every sheet that holds a table, every row has exactly as many cells
\* as there are headers, after any run of the grid handlers and of
\* apply-score-to-data on a table that started that way.
C1_RowsMatchHeaders ==
    \A i \in DOMAIN sheets :
        sheets[i].data.present =>
            \A r \in DOMAIN sheets[i].data.rows :
                Len(sheets[i].data.rows[r]) = Len(sheets[i].data.headers)

\* C1 witness: the score column was appended to a table with two rows.
C1_Witness ==
    /\ op.name = "handleApplyScoreToData"
    /\ ~isLeadScoringModalOpen
    /\ NCols = 3
    /\ NRows = 2

\* The score the specification prescribes for a row, in hundredths: blank cells
\* are skipped, an assigned value counts with its points (also 0), any other
\* value with 50.
SpecValuePoints(sw, columnName, cellValue) ==
    IF columnName \in DOMAIN sw /\ cellValue \in DOMAIN sw[columnName]
    THEN sw[columnName][cellValue]
    ELSE 50

SpecRowScore(headers, row, included, w, sw) ==
    Round2(SumSeq([i \in DOMAIN included |->
        LET columnIndex == IndexOf(headers, included[i])
        IN  IF columnIndex = 0 \/ IsBlank(row[columnIndex]) THEN 0
            ELSE ColumnWeightOf(w, included[i])
                 * SpecValuePoints(sw, included[i], row[columnIndex]) * 100]))

ScoreColumnOf(d) ==
    IF IndexOf(d.headers, scoreColumnName) # 0 THEN IndexOf(d.headers, scoreColumnName)
    ELSE Len(d.headers) + 1

\* C2: the score apply-to-data writes into a row is the weighted sum of the
\* specification, where a value assigned Not Important counts 0.
C2_ScoreFormula ==
    [][(op'.name = "handleApplyScoreToData" /\ isValidWeight) =>
        \A r \in DOMAIN data.rows :
            data'.rows[r][ScoreColumnOf(data)] =
                ScoreString(SpecRowScore(data.headers, data.rows[r], includedColumns,
                                         weights, subcategoryWeights))]_vars

\* C3: after loading a saved score, the included columns, the column weights
\* and the value weights are exactly the saved ones.
C3_LoadRestores ==
    [][op'.name = "handleLoadScore" =>
        \A i \in DOMAIN savedScores :
            savedScores[i].id = includedRef' =>
                /\ includedColumns' = savedScores[i].includedColumns
                /\ subcategoryWeights' = savedScores[i].subcategoryWeights
                /\ weights' = savedScores[i].weights]_vars

\* C4: adding, inserting or deleting a column keeps the width of every other
\* column, shifted to its new index.
C4_WidthsPreserved ==
    [][/\ op'.name = "addColumn" =>
            SubSeq(columnWidths', 1, Len(columnWidths)) = columnWidths
       /\ op'.name = "insertColumnLeft" =>
            RemoveAt(columnWidths', op'.col) = columnWidths
       /\ op'.name = "insertColumnRight" =>
            RemoveAt(columnWidths', op'.col + 1) = columnWidths
       /\ (op'.name = "deleteColumn" /\ NCols > 1) =>
            columnWidths' = RemoveAt(columnWidths, op'.col)]_vars

\* C5: start-up with a valid legacy snapshot in storage ends with exactly the
\* sheet '1' / 'Sheet 1' holding that snapshot, active, and the legacy key removed.
C5_LegacyMigrated ==
    [][(op'.name = "Mount" /\ storage.legacy.kind = "json" /\ storage.legacy.data.present) =>
        /\ sheets' = <<Sheet("1", "Sheet 1", storage.legacy.data)>>
        /\ activeSheetId' = "1"
        /\ storage'.legacy = LegacyAbsent]_vars

\* C6: removing a column from the included set leaves no column weight and no
\* value weights for it.
C6_RemoveDeletesWeights ==
    [][op'.name = "LeadScoring_removeColumn" =>
        \A h \in Range(includedColumns) \ Range(includedColumns') :
            /\ h \notin DOMAIN weights'
            /\ h \notin DOMAIN subcategoryWeights']_vars

\* C7: the sort indicator on screen belongs to the active sheet: it is there
\* only if the active sheet is the one that was sorted.
C7_SortBelongsToActiveSheet ==
    sortConfig.present => sortOwner = activeSheetId

\* C8: after including or removing a column, n >= 1 included columns have the
\* weights floor(100/n), the first one the remainder on top, and the sum is 100.
C8_EqualWeights ==
    (op.name \in {"LeadScoring_addColumn", "LeadScoring_removeColumn"}
     /\ Len(includedColumns) >= 1) =>
        LET n == Len(includedColumns)
        IN  /\ DOMAIN weights = Range(includedColumns)
            /\ \A i \in 1..n :
                  weights[includedColumns[i]] =
                      (100 \div n) + (IF i = 1 THEN 100 - (100 \div n) * n ELSE 0)
            /\ SumSeq([i \in 1..n |-> weights[includedColumns[i]]]) = 100

\* C8 witness: the last of MaxIncluded columns was just included.
C8_Witness ==
    /\ op.name = "LeadScoring_addColumn"
    /\ budget < MaxWeightSteps
    /\ Len(includedColumns) = MaxIncluded

\* The validity predicate as the specification words it.
IncludedWeightsValid ==
    /\ Len(includedColumns) > 0
    /\ SumSeq([i \in DOMAIN includedColumns |->
                  ColumnWeightOf(weights, includedColumns[i])]) = 100

CommitOps == {"handleSave", "handleSaveScore", "handleApplyScoreToData"}

\* C9: a commit invoked while the included weights do not sum to 100, or while
\* nothing is included, changes neither the sheets, nor the saved scores, nor
\* the storage.
C9_CommitNeedsValidWeights ==
    [][(op'.name \in CommitOps /\ ~IncludedWeightsValid) =>
        UNCHANGED <<sheets, savedScores, storage>>]_vars

\* C9 witness: apply-to-data was invoked with columns included and a total
\* other than 100, and the modal is still open.
C9_Witness ==
    /\ op.name = "handleApplyScoreToData"
    /\ isLeadScoringModalOpen
    /\ Len(includedColumns) = 2
    /\ ~IncludedWeightsValid

\* C10: apply-to-data with a valid configuration overwrites the cells of the
\* first 'Lead Score' column if there is one and appends one such column
\* otherwise; every other header and cell, the row count and the row order
\* stay, and each row gets its own score.
C10_ApplyWritesOneColumn ==
    [][(op'.name = "handleApplyScoreToData" /\ isValidWeight) =>
        LET k == IndexOf(data.headers, scoreColumnName)
            score(r) == ScoreString(calculateRowScore(data.headers, data.rows[r],
                                        includedColumns, weights, subcategoryWeights))
        IN  /\ Len(data'.rows) = Len(data.rows)
            /\ IF k # 0
               THEN /\ data'.headers = data.headers
                    /\ \A r \in DOMAIN data.rows :
                          /\ Len(data'.rows[r]) = Len(data.rows[r])
                          /\ \A c \in DOMAIN data.rows[r] :
                                data'.rows[r][c] = IF c = k THEN score(r)
                                                   ELSE data.rows[r][c]
               ELSE /\ data'.headers = Append(data.headers, scoreColumnName)
                    /\ \A r \in DOMAIN data.rows :
                          data'.rows[r] = Append(data.rows[r], score(r))]_vars

\* C10 witness: the existing 'Lead Score' column of a two-row table was overwritten.
C10_Witness ==
    /\ op.name = "handleApplyScoreToData"
    /\ ~isLeadScoringModalOpen
    /\ data.headers = <<"A", "Lead Score">>
    /\ \A r \in DOMAIN data.rows : data.rows[r][2] \notin DOMAIN RawStrings

\* C11: the selection of the displayed table holds row indices of that table
\* only (and App's copy equals it), and it is empty right after Delete
\* Selected, after a fresh data load and after any change of the header count.
C11_SelectionWithinRows ==
    /\ [](data.present => (selectedRows \subseteq 1..NRows /\ appSelectedRows = selectedRows))
    /\ [][(\/ op'.name \in {"handleDeleteSelectedRows", "onDataLoad", "handleImportData"}
           \/ (data.present /\ data'.present
               /\ Len(data'.headers) # Len(data.headers)))
          => (selectedRows' = {} /\ appSelectedRows' = {})]_vars

\* C11 witness: rows were deleted while a selection was active, and the table
\* still has rows.
C11_Witness ==
    /\ op.name = "handleDeleteSelectedRows"
    /\ NRows > 0
    /\ selectedRows = {}

\* C12: select-all yields the empty selection when every row is selected and
\* the set of all row indices otherwise; on a table without rows the selection
\* stays empty; the table itself is untouched.
C12_SelectAllToggles ==
    [][op'.name = "selectAllRows" =>
        /\ selectedRows' = (IF selectedRows = 1..NRows THEN {} ELSE 1..NRows)
        /\ (NRows = 0 => selectedRows' = {})
        /\ appSelectedRows' = selectedRows'
        /\ data' = data]_vars

\* C12 witness: select-all on a table with rows, all of them selected, cleared
\* the selection.
C12_Witness ==
    /\ op.name = "selectAllRows"
    /\ NRows = MaxSelectRows
    /\ selectedRows = {}
    /\ budget <= MaxSelectSteps - 2

\* The k-th smallest row index that is not in sel.
KeptIndex(sel, n, k) ==
    CHOOSE i \in (1..n) \ sel : Cardinality({j \in (1..i) \ sel : TRUE}) = k

\* C18: Delete Selected leaves the headers alone and leaves exactly the rows
\* whose index is not selected, in their original order and without gaps.
C18_DeleteSelectedRemovesExactly ==
    [][op'.name = "handleDeleteSelectedRows" =>
        LET sel == appSelectedRows
            kept == NRows - Cardinality(sel)
        IN  /\ sel \subseteq 1..NRows
            /\ data'.headers = data.headers
            /\ DOMAIN data'.rows = 1..kept
            /\ \A k \in 1..kept : data'.rows[k] = data.rows[KeptIndex(sel, NRows, k)]]_vars

\* C18 witness: the middle rows of a table were deleted; the first and the
\* last row remain, in that order.
C18_Witness ==
    /\ op.name = "handleDeleteSelectedRows"
    /\ NRows = 2
    /\ data.rows[1][1] = "1"
    /\ data.rows[2][1] = ToString(MaxSelectRows)

\* C13: deleteColumn on a table with one column changes neither the headers
\* nor the rows nor the column widths, and no table ever has fewer than one
\* column.
C13_LastColumnStays ==
    /\ [][(op'.name = "deleteColumn" /\ NCols = 1) =>
            (data' = data /\ columnWidths' = columnWidths)]_vars
    /\ [](data.present => NCols >= 1)

\* C13 witness: deleteColumn was refused on a one-column table whose column
\* had been resized (a deletion that went through would have reset the width).
C13_Witness ==
    /\ op.name = "deleteColumn"
    /\ NCols = 1
    /\ columnWidths # <<DEFAULT_WIDTH>>

\* C14: in the displayed table, dragging any column onto any other one and
\* then dragging it back gives the original headers and the original rows.
C14_MoveThenInverseRestores ==
    data.present =>
        \A from \in 1..NCols, to \in 1..NCols :
            from # to => moveColumn(moveColumn(data, from, to), to, from) = data

\* C15: a header edit with an empty or blank input keeps the previous header,
\* and after any header edit the edited header is not blank: it is the
\* previous one or the trimmed input; the other headers and the rows are
\* untouched.
C15_BlankHeaderRejected ==
    /\ [](data.present =>
            \A c \in 1..NCols, v \in HeaderInputs :
                IsBlank(v) => handleHeaderSave(c, v) = data.headers[c])
    /\ [][op'.name = "handleHeaderChange" =>
            LET c == op'.col
            IN  /\ ~IsBlank(data'.headers[c])
                /\ \/ data'.headers[c] = data.headers[c]
                   \/ \E v \in HeaderInputs : ~IsBlank(v) /\ data'.headers[c] = Trim(v)
                /\ \A k \in 1..NCols : k # c => data'.headers[k] = data.headers[k]
                /\ data'.rows = data.rows]_vars

\* C15 witness: a header edit on column B left the header B, which only a
\* blank input does.
C15_Witness ==
    /\ op.name = "handleHeaderChange"
    /\ op.col = 2
    /\ data.headers = <<"A", "B">>

\* What the sort rule of the specification makes of a cell: a value parses
\* as a number when the whole of it is a number.
SpecParses(v) == ~IsBlank(v) /\ ~Number(v).nan

SpecNumber(v) == IF SpecParses(v) THEN Number(v).val ELSE 0

SpecNumeric(rows, c) ==
    LET nonBlank == {r \in DOMAIN rows : ~IsBlank(rows[r][c])}
        parsed == {r \in nonBlank : SpecParses(rows[r][c])}
    IN  nonBlank # {} /\ 10 * Cardinality(parsed) > 7 * Cardinality(nonBlank)

\* a sorts strictly before b
SpecBefore(a, b, numeric, direction) ==
    LET less(x, y) == IF numeric THEN SpecNumber(x) < SpecNumber(y)
                      ELSE StrLess(toLowerCase(x), toLowerCase(y))
    IN  IF direction = "asc" THEN less(a, b) ELSE less(b, a)

\* C16: a sort leaves the headers alone and permutes the rows; the column is
\* taken as numeric iff more than 70% of its non-blank values parse as
\* numbers; numeric columns are ordered by value, blank and unparseable cells
\* counting 0, other columns by lower-cased text; rows with equal keys keep
\* their order.
C16_SortRule ==
    [][op'.name = "sortColumn" =>
        LET c == op'.col
            dir == sortConfig'.direction
            numeric == SpecNumeric(data.rows, c)
            old(k) == IndexOf(data.rows, data'.rows[k])
        IN  /\ data'.headers = data.headers
            /\ Len(data'.rows) = NRows
            /\ Range(data'.rows) = Range(data.rows)
            /\ \A k \in 1..NRows, l \in 1..NRows :
                    k < l =>
                        LET a == data.rows[old(k)][c]
                            b == data.rows[old(l)][c]
                        IN  \/ SpecBefore(a, b, numeric, dir)
                            \/ (~SpecBefore(b, a, numeric, dir) /\ old(k) < old(l))]_vars

\* s2 is s1 with the one element x put in at index at.
InsertedAt(s1, s2, at, x) ==
    /\ Len(s2) = Len(s1) + 1
    /\ at \in 1..Len(s2)
    /\ s2[at] = x
    /\ \A k \in 1..Len(s1) : s2[IF k < at THEN k ELSE k + 1] = s1[k]

\* C17: addColumn, insertColumnLeft(at) and insertColumnRight(at) add exactly
\* one column, at the end, at at and right after at; its header is
\* "Column N+1" for N columns before, every row gets "" there, and the other
\* headers and cells keep their contents and order.
C17_InsertAddsOneColumn ==
    [][op'.name \in {"addColumn", "insertColumnLeft", "insertColumnRight"} =>
        LET N == NCols
            at == IF op'.name = "addColumn" THEN N + 1
                  ELSE IF op'.name = "insertColumnLeft" THEN op'.col
                  ELSE op'.col + 1
        IN  /\ InsertedAt(data.headers, data'.headers, at, "Column " \o ToString(N + 1))
            /\ Len(data'.rows) = NRows
            /\ \A r \in 1..NRows : InsertedAt(data.rows[r], data'.rows[r], at, "")]_vars

\* C17 witness: a column was inserted to the right of the last of two columns
\* of a table with rows.
C17_Witness ==
    /\ op = [name |-> "insertColumnRight", col |-> 2]
    /\ data.headers = <<"A", "B", "Column 3">>
    /\ NRows = 2
    /\ \A r \in 1..NRows : data.rows[r][3] = ""

C20_LastSheetStays ==
    /\ [][(op'.name = "deleteSheet" /\ Len(sheets) = 1) =>
            (sheets' = sheets /\ activeSheetId' = activeSheetId
             /\ storage' = storage)]_vars
    /\ [](~isLoading => Len(sheets) >= 1)

\* C20 witness: deleteSheet dropped nothing from a registry whose only sheet
\* is the second one created and holds a table.
C20_Witness ==
    /\ op = [name |-> "deleteSheet", col |-> 0]
    /\ ~isLoading
    /\ Len(sheets) = 1
    /\ sheets[1].id = "2"
    /\ sheets[1].data.present

SheetIds(shs) == {shs[i].id : i \in DOMAIN shs}

\* C21: once start-up is over the active id is the id of a sheet of the
\* registry; deleting the active sheet activates the first remaining one,
\* deleting another sheet keeps the active one, and addNewSheet and an import
\* as a new sheet activate the sheet they append.
C21_ActiveSheetExists ==
    /\ [](~isLoading => activeSheetId \in SheetIds(sheets))
    /\ [][/\ (op'.name = "deleteSheet" /\ op'.col > 0) =>
               activeSheetId' = IF activeSheetId \in SheetIds(sheets')
                                THEN activeSheetId
                                ELSE sheets'[1].id
          /\ (op'.name = "addNewSheet"
              \/ (op'.name = "handleImportData" /\ Len(sheets') > Len(sheets))) =>
               activeSheetId' = sheets'[Len(sheets')].id]_vars

\* One more than the largest numeric sheet id, 1 when no id is numeric.
SpecNextId ==
    LET nums == {n \in 0..MaxSheetId : ToString(n) \in SheetIds(sheets)}
    IN  IF nums = {} THEN 1 ELSE (CHOOSE m \in nums : \A n \in nums : n <= m) + 1

\* C22: addNewSheet appends a sheet without data whose id is one more than the
\* largest numeric id (1 if there is none), named 'Sheet {id}', and activates
\* it; no two sheets of the registry ever have the same id.
C22_FreshSheetId ==
    /\ [][op'.name = "addNewSheet" =>
            /\ sheets' = Append(sheets, Sheet(ToString(SpecNextId),
                                              "Sheet " \o ToString(SpecNextId), NoData))
            /\ activeSheetId' = ToString(SpecNextId)]_vars
    /\ [](\A i, j \in DOMAIN sheets : sheets[i].id = sheets[j].id => i = j)

\* C22 witness: a sheet was added after a deletion, so that its id is more
\* than the number of sheets.
C22_Witness ==
    /\ op.name = "addNewSheet"
    /\ Len(sheets) = 2
    /\ sheets[2].id = "3"
    /\ activeSheetId = "3"

\* C23: an import in mode 'replace' changes the data of the active sheet and
\* nothing else of the registry; an import in mode 'new' appends one sheet with
\* the id and name addNewSheet would give it, holding the imported table,
\* activates it and leaves the sheets that were there as they were.
C23_ImportFrame ==
    [][\A d \in AppTables :
        /\ handleImportData(d, "replace") =>
              /\ sheets' = [sheets EXCEPT ![currentSheet].data = d]
              /\ activeSheetId' = activeSheetId
        /\ handleImportData(d, "new") =>
              /\ sheets' = Append(sheets, Sheet(ToString(SpecNextId),
                                                "Sheet " \o ToString(SpecNextId), d))
              /\ activeSheetId' = ToString(SpecNextId)]_vars

\* C23 witness: a table was imported into the first of two sheets, replacing
\* a table of another shape; the second sheet holds a table too.
C23_Witness ==
    /\ op.name = "handleImportData"
    /\ Len(sheets) = 2
    /\ activeSheetId = sheets[1].id
    /\ sheets[1].data = Table(<<"A", "B">>, << <<"Y", "X">>, <<"X", "Y">> >>)
    /\ sheets[2].data = Table(<<"A">>, << <<"X">>, <<"Y">> >>)

\* The stored registry entry is not JSON, or lacks the sheets list or the
\* active id, or its active id names none of its sheets.
CorruptRegistry(saved) ==
    \/ saved.kind = "garbage"
    \/ /\ saved.kind = "json"
       /\ \/ ~saved.hasSheets
          \/ saved.activeSheetId = ""
          \/ saved.activeSheetId \notin SheetIds(saved.sheets)

\* C24: start-up on a corrupt registry entry (and no legacy table to migrate)
\* ends with exactly the sheet '1' / 'Sheet 1' without data, active; a table
\* loaded afterwards is the table of the active sheet.
C24_CorruptRegistryDiscarded ==
    /\ [][(/\ op'.name = "Mount"
           /\ CorruptRegistry(storage.sheets)
           /\ ~storage.legacy.data.present) =>
            /\ sheets' = <<Sheet("1", "Sheet 1", NoData)>>
            /\ activeSheetId' = "1"]_vars
    /\ [][\A d \in AppTables : onDataLoad(d) => data' = d]_vars

\* C25: while a table is shown there is one width per header and no width is
\* below 100; a resize sets the one width to the requested value, or to 100
\* when less was requested, and leaves the other widths alone.
C25_WidthsMatchHeaders ==
    /\ [](data.present =>
            /\ Len(columnWidths) = Len(data.headers)
            /\ \A c \in DOMAIN columnWidths : columnWidths[c] >= 100)
    /\ [][op'.name = "handleMouseMove" =>
            \E x \in WidthInputs :
                columnWidths' = [columnWidths EXCEPT
                                    ![op'.col] = IF x < 100 THEN 100 ELSE x]]_vars

\* C25 witness: on the second of two sheets a width below the minimum was
\* asked for and 100 was set.
C25_Witness ==
    /\ op.name = "handleMouseMove"
    /\ Len(sheets) = 2
    /\ activeSheetId = "2"
    /\ columnWidths[op.col] = 100

\* The element at from taken out and put in again at index to, the others
\* keeping their order.
SpecMove(s, from, to) ==
    [k \in 1..Len(s) |->
        IF k = to THEN s[from]
        ELSE IF from < to /\ from <= k /\ k < to THEN s[k + 1]
        ELSE IF to < from /\ to < k /\ k <= from THEN s[k - 1]
        ELSE s[k]]

\* C26: a column move is one array-move, applied alike to the headers, to
\* every row and to the column widths.
C26_MoveInLockStep ==
    [][op'.name = "handleDragEnd" =>
        \E to \in 1..NCols :
            /\ to # op'.col
            /\ data'.headers = SpecMove(data.headers, op'.col, to)
            /\ DOMAIN data'.rows = DOMAIN data.rows
            /\ \A r \in DOMAIN data.rows :
                  data'.rows[r] = SpecMove(data.rows[r], op'.col, to)
            /\ columnWidths' = SpecMove(columnWidths, op'.col, to)]_vars

\* C26 witness: column A, resized to 200, was dragged behind column B; its
\* cells and its width went with it.
C26_Witness ==
    /\ op.name = "handleDragEnd"
    /\ data.headers = <<"B", "A">>
    /\ data.rows[1] = <<"Y", "X">>
    /\ columnWidths = <<150, 200>>

\* C27: after start-up the stored registry snapshot is the pair (sheets,
\* activeSheetId) in memory after every handler, and the start-up that follows
\* a reload ends with the sheets and the active id the snapshot holds.
C27_SnapshotIsRegistry ==
    /\ [](~isLoading =>
            /\ storage.sheets.kind = "json"
            /\ storage.sheets.sheets = sheets
            /\ storage.sheets.activeSheetId = activeSheetId)
    /\ [][op'.name = "Reload" => storage' = storage]_vars
    /\ [][(op.name = "Reload" /\ op'.name = "Mount") =>
            /\ sheets' = storage.sheets.sheets
            /\ activeSheetId' = storage.sheets.activeSheetId]_vars

\* C27 witness: the page came back from a reload with two sheets, the first
\* one active, which took a sheet switch before the reload.
C27_Witness ==
    /\ op.name = "Mount"
    /\ Len(sheets) = 2
    /\ activeSheetId = sheets[1].id
    /\ data.present

\* C28: when the import modal is opened it holds no parsed CSV: no file is
\* shown as loaded and nothing can be imported before a file is chosen.
C28_ModalOpensEmpty ==
    [][op'.name = "handleImport" => ~csvData'.present]_vars

\* C29: in a table that started with distinct headers, none of them of the
\* form 'Column k', adding, inserting and deleting columns never gives two
\* columns the same header.
C29_HeadersStayDistinct ==
    \A i, j \in DOMAIN data.headers : data.headers[i] = data.headers[j] => i = j

\* A column of a table: its header and its cell in every row.
ColumnAt(d, c) == <<d.headers[c], [r \in DOMAIN d.rows |-> d.rows[r][c]]>>

\* C30: a sort indicator names a column of the table shown, and after a
\* column was inserted, deleted or moved it is still on the column the rows
\* were sorted by (or gone, if that column was deleted).
C30_SortConfigOnSortedColumn ==
    /\ []((data.present /\ sortConfig.present) => sortConfig.columnIndex \in 1..NCols)
    /\ [][(/\ op'.name \in {"insertColumnLeft", "insertColumnRight", "deleteColumn",
                            "handleDragEnd"}
           /\ sortConfig.present
           /\ sortConfig'.present) =>
            /\ sortConfig'.columnIndex \in 1..Len(data'.headers)
            /\ ColumnAt(data', sortConfig'.columnIndex) =
                   ColumnAt(data, sortConfig.columnIndex)]_vars

====
